---- MODULE Spec2Model ----
(***************************************************************************)
(* Model of the distillation trainer of                                    *)
(* examples/research_projects/distill-bloom-flax/distiller.py: the         *)
(* training loop Distiller.train, the two loss terms, the gradient         *)
(* averaging and update, and the metric logging.                           *)
(*                                                                         *)
(* Numbers.  Values that the repository's own code computes with +, -, *   *)
(* and / are exact rationals <<n, d>> (d > 0, lowest terms).  The          *)
(* transcendental functions of the tensor library (exp inside softmax,     *)
(* log) are evaluated on a grid: logits are read in tenths of a nat,        *)
(* exp(-1/10) is 905/1000, probabilities are multiples of 1/ProbGrid.      *)
(***************************************************************************)
EXTENDS Integers, Sequences, FiniteSets, TLC

\* ------------------------------------------------------------------ bounds
MaxEpochs == 2
MaxSeqLen == 4
MaxBatches == 2
MaxBatchSize == 2
MaxLr == 2
MaxMetrics == 2
VocabSize == 2
NumRows == 2
NumProcs == 2
ProbGrid == 20
MaxYield == 3
MaxSeed == 1

\* --------------------------------------------------------------- rationals
Abs(x) == IF x < 0 THEN -x ELSE x

RECURSIVE GCD(_, _)
GCD(a, b) == IF b = 0 THEN a ELSE GCD(b, a % b)

Rat(n, d) ==
    LET g == GCD(Abs(n), d) IN <<n \div g, d \div g>>

RatInt(n) == <<n, 1>>
RatAdd(x, y) == Rat(x[1] * y[2] + y[1] * x[2], x[2] * y[2])
RatNeg(x) == <<-x[1], x[2]>>
RatSub(x, y) == RatAdd(x, RatNeg(y))
RatMul(x, y) == Rat(x[1] * y[1], x[2] * y[2])
RatDivInt(x, n) == Rat(x[1], x[2] * n)
RatLeq(x, y) == x[1] * y[2] <= y[1] * x[2]
RatFloor(x) == x[1] \div x[2]

RECURSIVE RatSum(_, _)
RatSum(f, S) ==
    IF S = {} THEN RatInt(0)
    ELSE LET s == CHOOSE s \in S : TRUE IN RatAdd(f[s], RatSum(f, S \ {s}))

\* ------------------------------------------------------------ index sets
Vocab == 0 .. (VocabSize - 1)
Rows == 0 .. (NumRows - 1)
Procs == 0 .. (NumProcs - 1)

\* --------------------------------------------------- tensor-library pieces
\* exp(-k/10) in thousandths for k = 0, 1, ...: each entry is the one before
\* times exp(-1/10), until the value underflows to 0.
RECURSIVE ExpSeq(_)
ExpSeq(s) ==
    IF s[Len(s)] = 0 THEN s ELSE ExpSeq(Append(s, (s[Len(s)] * 905) \div 1000))

ExpTable == ExpSeq(<<1000>>)

\* exp(-k/10) in thousandths, k >= 0 tenths of a nat.
ExpNeg(k) == IF k < Len(ExpTable) THEN ExpTable[k + 1] ELSE 0

\* jnp.argmax-free maximum of a finite set of integers.
MaxOf(S) == CHOOSE m \in S : \A x \in S : x <= m

\* nn.softmax(logits, axis=-1) of one row: exp(x - max) / sum, on the grid.
Softmax(z) ==
    LET q == [v \in Vocab |-> RatFloor(RatMul(RatInt(10), z[v]))]
        m == MaxOf({q[v] : v \in Vocab})
        e == [v \in Vocab |-> ExpNeg(m - q[v])]
        RECURSIVE Tot(_)
        Tot(S) == IF S = {} THEN 0
                  ELSE LET s == CHOOSE s \in S : TRUE IN e[s] + Tot(S \ {s})
        t == Tot(Vocab)
    IN  [v \in Vocab |-> Rat((e[v] * ProbGrid) \div t, ProbGrid)]

\* -jnp.log(p) for p > 0: the least k tenths of a nat with exp(-k/10) <= p.
RECURSIVE NegLogFrom(_, _)
NegLogFrom(p, k) ==
    IF ExpNeg(k) * p[2] <= p[1] * 1000 THEN k ELSE NegLogFrom(p, k + 1)

\* ------------------------------------------------------------------ dtypes
\* An array is its dtype and its values; float32 is the reference precision and
\* holds the values exactly.
DTypes == {"float32", "bfloat16", "float16"}

Array(d, v) == [dtype |-> d, val |-> v]

\* Bits of significand, the implicit one included.
SignificandBits(d) == IF d = "bfloat16" THEN 8 ELSE IF d = "float16" THEN 11 ELSE 24

RECURSIVE Pow2(_)
Pow2(n) == IF n = 0 THEN 1 ELSE 2 * Pow2(n - 1)

\* n / d > 0 rounded to bits significant bits, ties to even.
RECURSIVE RoundSig(_, _, _)
RoundSig(n, d, bits) ==
    IF n >= d * Pow2(bits) THEN RatMul(RatInt(2), RoundSig(n, 2 * d, bits))
    ELSE IF n < d * Pow2(bits - 1) THEN RatDivInt(RoundSig(2 * n, d, bits), 2)
    ELSE LET q == n \div d
             r == n % d
         IN  RatInt(IF 2 * r > d THEN q + 1
                    ELSE IF 2 * r = d THEN q + (q % 2)
                    ELSE q)

\* The value of dtype d nearest to x.
RoundTo(x, d) ==
    IF d = "float32" \/ x[1] = 0 THEN x
    ELSE IF x[1] < 0 THEN RatNeg(RoundSig(-x[1], x[2], SignificandBits(d)))
    ELSE RoundSig(x[1], x[2], SignificandBits(d))

\* x.astype(d)
Astype(x, d) ==
    Array(d, [r \in DOMAIN x.val |-> [v \in DOMAIN x.val[r] |-> RoundTo(x.val[r][v], d)]])

ToBf16_every_dtype(t) == Astype(t, "bfloat16")

\* to_bf16(t), t one array.
ToBf16(t) == IF t.dtype = "float32" THEN Astype(t, "bfloat16") ELSE t

\* The floating-point values that are not numbers.
Inf == <<1, 0>>
NaN == <<0, 0>>
IsFinite(x) == x[2] # 0

ExtAdd(x, y) ==
    IF x = NaN \/ y = NaN THEN NaN
    ELSE IF x = Inf \/ y = Inf THEN Inf
    ELSE RatAdd(x, y)

RECURSIVE ExtSum(_, _)
ExtSum(f, S) ==
    IF S = {} THEN RatInt(0)
    ELSE LET s == CHOOSE s \in S : TRUE IN ExtAdd(f[s], ExtSum(f, S \ {s}))

\* weight * (-log ...): 0 * inf is NaN.
ExtMul(w, weight_is_zero, x) ==
    IF x = NaN THEN NaN
    ELSE IF x = Inf THEN (IF weight_is_zero THEN NaN ELSE Inf)
    ELSE RatMul(w, x)

\* The logits of one row in tenths of a nat, and how far class v is below the
\* largest.
LogitTenths(z) == [v \in Vocab |-> RatFloor(RatMul(RatInt(10), z[v]))]
GapTenths(z, v) == MaxOf({LogitTenths(z)[u] : u \in Vocab}) - LogitTenths(z)[v]

\* -log(1e-8) = 18.4 nats, in tenths.
NegLogOfEps == 184

\* exp(-17.4) is below half the least positive float16, as is 1e-8: from a gap
\* of 17.4 nats on, a float16 softmax output is zero and stays zero when the
\* epsilon is added. float32 and bfloat16 hold 1e-8.
Float16ZeroGap == 174
ProbIsZero(d, z, v) == d = "float16" /\ GapTenths(z, v) >= Float16ZeroGap

Min(a, b) == IF a <= b THEN a ELSE b

\* -jnp.log(nn.softmax(z)[v] + 1e-8) for a row z of dtype d, p its softmax
\* output on the grid. Where p is below the grid the value follows the gap, up
\* to -log(1e-8); where the sum is zero it is -log(0).
NegLogEps(d, z, v, p) ==
    IF p[1] > 0 THEN Rat(NegLogFrom(p, 0), 10)
    ELSE IF ProbIsZero(d, z, v) THEN Inf
    ELSE Rat(Min(IF GapTenths(z, v) > 0 THEN GapTenths(z, v) ELSE NegLogOfEps,
                 NegLogOfEps), 10)

\* ----------------------------------------------------------------- tokens
\* Token j of row r of the k-th batch of the dataset with seed <<a, b>>.
Tok(a, b, k, r, j) == (a + b * j + r + k) % VocabSize

BatchOf(a, b, k) ==
    [r \in Rows |-> [j \in 0 .. (MaxSeqLen - 1) |-> Tok(a, b, k, r, j)]]

DatasetOf(a, b, n) == [k \in 0 .. (n - 1) |-> BatchOf(a, b, k)]

\* batch[:, :i]
Ctx(b, n) == [r \in Rows |-> [j \in 0 .. (n - 1) |-> b[r][j]]]

\* batch[:, c]
Column(b, c) == [r \in Rows |-> b[r][c]]

CtxLen(c) == Cardinality(DOMAIN c[0])

\* ----------------------------------------------------------------- models
\* model(sequence, params=params).logits[:, -1, :]: one logit per class for
\* the position after the last context token.
Forward(params, seq) ==
    LET n == CtxLen(seq)
    IN  [r \in Rows |->
            [v \in Vocab |->
                RatAdd(params[v], RatInt(IF seq[r][n - 1] = v THEN 1 ELSE 0))]]

\* one_hot(tokens, vocab_size)
OneHot(tokens, vocab_size) ==
    [r \in Rows |-> [v \in 0 .. (vocab_size - 1) |-> IF tokens[r] = v THEN 1 ELSE 0]]

TeacherStepFn(params, sequence) == Forward(params, sequence)

\* ----------------------------------------------------------------- losses
Cells == Rows \X Vocab

\* The inputs of a loss term after its "if self.dtype != jnp.float32" block.
CastInput(dtype, x) == IF dtype # "float32" THEN ToBf16(x) ELSE x

CeLoss_log_without_minus(dtype, logits_student, logits_teacher) ==
    LET s == CastInput(dtype, logits_student)
        t == CastInput(dtype, logits_teacher)
        pt == [r \in Rows |-> Softmax(t.val[r])]
        ps == [r \in Rows |-> Softmax(s.val[r])]
        term == [c \in Cells |->
                    ExtMul(RatNeg(pt[c[1]][c[2]]), ProbIsZero(t.dtype, t.val[c[1]], c[2]),
                           NegLogEps(s.dtype, s.val[c[1]], c[2], ps[c[1]][c[2]]))]
    IN  ExtSum(term, Cells)

\* _ce_loss(logits_student, logits_teacher) of a trainer of the given dtype.
CeLoss(dtype, logits_student, logits_teacher) ==
    LET s == CastInput(dtype, logits_student)
        t == CastInput(dtype, logits_teacher)
        pt == [r \in Rows |-> Softmax(t.val[r])]
        ps == [r \in Rows |-> Softmax(s.val[r])]
        term == [c \in Cells |->
                    ExtMul(pt[c[1]][c[2]], ProbIsZero(t.dtype, t.val[c[1]], c[2]),
                           NegLogEps(s.dtype, s.val[c[1]], c[2], ps[c[1]][c[2]]))]
    IN  ExtSum(term, Cells)

\* _lm_loss(logits_student, one_hot_label) of a trainer of the given dtype.
LmLoss(dtype, logits_student, one_hot_label) ==
    LET s == CastInput(dtype, logits_student)
        l == CastInput(dtype, one_hot_label)
        ps == [r \in Rows |-> Softmax(s.val[r])]
        term == [c \in Cells |->
                    ExtMul(l.val[c[1]][c[2]], l.val[c[1]][c[2]][1] = 0,
                           NegLogEps(s.dtype, s.val[c[1]], c[2], ps[c[1]][c[2]]))]
    IN  ExtSum(term, Cells)

\* The dtype of the arrays train() hands to the partitioned steps: the logits
\* of the two models and the one-hot labels.
TrainDType == "float32"

\* An array of TrainDType from the values of logits or of one-hot labels.
Logits(v) == Array(TrainDType, v)
Labels(oh) == Array(TrainDType, [r \in DOMAIN oh |-> [v \in DOMAIN oh[r] |-> RatInt(oh[r][v])]])

StudentStep(dtype, params, logits_teacher, sequence, one_hot_label) ==
    LET logits_student == Logits(Forward(params, sequence))
    IN  ExtAdd(CeLoss(dtype, logits_student, Logits(logits_teacher)),
               LmLoss(dtype, logits_student, Labels(one_hot_label)))

\* jnp.mean of the scalar the student step returns.
ComputeLoss(dtype, params, logits_teacher, b, one_hot_labels) ==
    StudentStep(dtype, params, logits_teacher, b, one_hot_labels)

\* The gradient half of jax.value_and_grad(self._compute_loss): d loss / d params;
\* the casts pass the gradient through.
GradLoss(dtype, params, logits_teacher, b, one_hot_labels) ==
    LET s == CastInput(dtype, Logits(Forward(params, b)))
        t == CastInput(dtype, Logits(logits_teacher))
        l == CastInput(dtype, Labels(one_hot_labels))
        ps == [r \in Rows |-> Softmax(s.val[r])]
        pt == [r \in Rows |-> Softmax(t.val[r])]
        w == [r \in Rows |-> [v \in Vocab |-> RatAdd(pt[r][v], l.val[r][v])]]
        mass == [r \in Rows |-> RatSum(w[r], Vocab)]
    IN  [v \in Vocab |->
            RatSum([r \in Rows |-> RatSub(RatMul(mass[r], ps[r][v]), w[r][v])], Rows)]

\* grad = jax.tree_map(lambda g: g / batch_size, grad)
AverageGrad(g, batch_size) == [v \in DOMAIN g |-> RatDivInt(g[v], batch_size)]

AverageLoss_skipped(l, batch_size) == l

\* loss = jax.tree_map(lambda l: l / batch_size, loss)
AverageLoss(l, batch_size) == RatDivInt(l, batch_size)

ApplyGradient_ascent(st, grads, learning_rate) ==
    [params |-> [v \in DOMAIN st.params |->
                    RatAdd(st.params[v], RatMul(learning_rate, grads[v]))],
     step |-> st.step + 1]

ApplyGradient_flattened(st, grads, learning_rate) ==
    [params |-> [k \in 1..Cardinality(DOMAIN st.params) |->
                    RatSub(st.params[k - 1], RatMul(learning_rate, grads[k - 1]))],
     step |-> st.step + 1]

\* optim.GradientDescent through FlaxOptimTrainState.apply_gradient.
ApplyGradient(st, grads, learning_rate) ==
    [params |-> [v \in DOMAIN st.params |->
                    RatSub(st.params[v], RatMul(learning_rate, grads[v]))],
     step |-> st.step + 1]

\* FlaxOptimTrainState.create(optimizer_def, model_variables)
CreateState(params) == [params |-> params, step |-> 0]

\* ------------------------------------------------------------------ norms
RECURSIVE ISqrtFrom(_, _)
ISqrtFrom(n, s) == IF (s + 1) * (s + 1) > n THEN s ELSE ISqrtFrom(n, s + 1)

RECURSIVE SumSq(_, _)
SumSq(f, S) ==
    IF S = {} THEN 0
    ELSE LET s == CHOOSE s \in S : TRUE
             q == RatFloor(RatMul(RatInt(10), <<Abs(f[s][1]), f[s][2]>>))
         IN  q * q + SumSq(f, S \ {s})

\* jnp.linalg.norm over a collection of leaves, in tenths.
Norm(f) == Rat(ISqrtFrom(SumSq(f, DOMAIN f), 0), 10)

\* ------------------------------------------------------------ metric keys
K_loss == <<"l", "o", "s", "s">>
K_learning_rate == <<"l", "e", "a", "r", "n", "i", "n", "g", "_", "r", "a", "t", "e">>
K_layer_grad_norm == <<"l", "a", "y", "e", "r", "_", "g", "r", "a", "d", "_", "n", "o", "r", "m">>
K_transformer_norm == <<"t", "r", "a", "n", "s", "f", "o", "r", "m", "e", "r", "_", "n", "o", "r", "m">>
K_transformer_grad_norm == <<"t", "r", "a", "n", "s", "f", "o", "r", "m", "e", "r", "_", "g", "r", "a", "d", "_", "n", "o", "r", "m">>
K_layer_param_norm == <<"l", "a", "y", "e", "r", "_", "p", "a", "r", "a", "m", "_", "n", "o", "r", "m">>
K_param_norm == <<"p", "a", "r", "a", "m", "_", "n", "o", "r", "m">>
K_layer == <<"l", "a", "y", "e", "r">>
K_slash == <<"/">>
K_train == <<"t", "r", "a", "i", "n">>
K_x_slash == <<"x", "/">>
K_layer_x == <<"l", "a", "y", "e", "r", "/", "x">>

\* An optional argument: None, or Some(x).
None == <<>>
Some(x) == <<x>>

\* "layer" in k
HasLayer(k) ==
    \E o \in 0 .. (Len(k) - Len(K_layer)) : SubSeq(k, o + 1, o + Len(K_layer)) = K_layer

\* A dict is the sequence of its <<key, value>> items in insertion order.
DictKeys(d) == {d[n][1] : n \in DOMAIN d}
DictGet(d, k) == LET n == CHOOSE n \in DOMAIN d : d[n][1] = k IN d[n][2]
DictPut(d, k, v) ==
    IF k \in DictKeys(d)
    THEN [n \in DOMAIN d |-> IF d[n][1] = k THEN <<k, v>> ELSE d[n]]
    ELSE Append(d, <<k, v>>)

LogKey_prefix_first(k, prefix) ==
    IF prefix # None THEN prefix[1] \o K_slash \o k
    ELSE IF HasLayer(k) THEN k \o K_slash
    ELSE k

\* The key under which _log_metrics files the metric k.
LogKey(k, prefix) ==
    IF HasLayer(k) THEN k \o K_slash
    ELSE IF prefix # None THEN prefix[1] \o K_slash \o k
    ELSE k

\* The log_metrics dict that _log_metrics builds from metrics.
RECURSIVE LogMetricsDict(_, _)
LogMetricsDict(metrics, prefix) ==
    IF metrics = <<>> THEN <<>>
    ELSE LET n == Len(metrics)
             item == metrics[n]
         IN  DictPut(LogMetricsDict(SubSeq(metrics, 1, n - 1), prefix),
                     LogKey(item[1], prefix), item[2])

IsLoggingProcess_any(p) == TRUE

\* jax.process_index() == 0
IsLoggingProcess(p) == p = 0

\* What one call of _log_metrics appends to the metrics sink.
LogMetricsWrites(p, metrics, at_step, prefix) ==
    IF IsLoggingProcess(p)
    THEN <<[proc |-> p, step |-> at_step, data |-> LogMetricsDict(metrics, prefix)]>>
    ELSE <<>>

LogParamNorm_no_param_norm(g, st) ==
    LET layer_grad_norm == [v \in DOMAIN g |-> Norm([u \in {v} |-> g[v]])]
        layer_param_norm == [v \in DOMAIN st.params |-> Norm([u \in {v} |-> st.params[v]])]
        l1 == <<<<K_layer_grad_norm, layer_grad_norm>>,
                <<K_transformer_norm, Norm(layer_grad_norm)>>>>
        l2 == DictPut(l1, K_transformer_grad_norm,
                      Norm([u \in {0} |-> DictGet(l1, K_transformer_norm)]))
        l3 == DictPut(l2, K_layer_param_norm, layer_param_norm)
    IN  DictPut(l3, K_transformer_norm, Norm(layer_param_norm))

\* _log_param_norm(grad), with self.state already updated.
LogParamNorm(g, st) ==
    LET layer_grad_norm == [v \in DOMAIN g |-> Norm([u \in {v} |-> g[v]])]
        layer_param_norm == [v \in DOMAIN st.params |-> Norm([u \in {v} |-> st.params[v]])]
        l1 == <<<<K_layer_grad_norm, layer_grad_norm>>,
                <<K_transformer_norm, Norm(layer_grad_norm)>>>>
        l2 == DictPut(l1, K_transformer_grad_norm,
                      Norm([u \in {0} |-> DictGet(l1, K_transformer_norm)]))
        l3 == DictPut(l2, K_layer_param_norm, layer_param_norm)
        l4 == DictPut(l3, K_transformer_norm, Norm(layer_param_norm))
    IN  DictPut(l4, K_param_norm, Norm(layer_param_norm))

RECURSIVE DictUpdate(_, _)
DictUpdate(d, e) ==
    IF e = <<>> THEN d
    ELSE DictUpdate(DictPut(d, e[1][1], e[1][2]), Tail(e))

\* ------------------------------------------------------------------ state
VARIABLES
    cfg,              \* self.params: the options the trainer reads
    dataset,          \* self.dataset: the batches it holds
    endless,          \* self.dataset never stops yielding: it cycles through them
    rng,              \* self.rng and self.dropout_rng
    dtype,            \* self.dtype
    probe,            \* a loss term called on its own: its arguments, then its result
    teacher_params,   \* self.teacher_params
    student_params,   \* self.student_params
    state,            \* self.state
    pc,               \* position of train()
    epoch,            \* loop variable of the epoch loop
    it,               \* how many batches the current dataset iteration has yielded
    batch,            \* loop variable of the batch loop
    i,                \* loop variable of the position loop
    step,             \* local step of train()
    logits_teacher,   \* local of the inner step
    one_hot_labels,   \* local of the inner step
    loss,             \* local of the inner step
    grad,             \* local of the inner step
    logs,             \* the metrics handed to _log_metrics
    prefix,           \* the prefix handed to _log_metrics
    logged,           \* processes that have run _log_metrics for the current call
    sink,             \* what wandb.log has received, in order
    raised,           \* an exception has left train()
    calls,            \* arguments of the model calls of the current inner step
    history           \* one record per completed parameter update

vars == <<cfg, dataset, endless, rng, dtype, probe,
          teacher_params, student_params, state, pc, epoch, it, batch,
          i, step, logits_teacher, one_hot_labels, loss, grad, logs, prefix, logged,
          sink, raised, calls, history>>

Unset == <<>>

\* jax.random.PRNGKey(seed) and jax.random.split(key): keys are pairs, and the
\* two halves of a split differ from each other and from seed to seed.
Seeds == 0 .. MaxSeed
PRNGKey(seed) == <<0, seed>>
Split(key) == <<<<key[1] + 1, 2 * key[2]>>, <<key[1] + 1, 2 * key[2] + 1>>>>

\* self.rng, self.dropout_rng = jax.random.split(jax.random.PRNGKey(seed))
Keys(seed) ==
    LET k == Split(PRNGKey(seed)) IN [rng |-> k[1], dropout_rng |-> k[2]]

\* The parameter trees handed to the constructor.
StudentInit == [v \in Vocab |-> RatInt(0)]
TeacherInit == [v \in Vocab |-> RatInt(v)]

Configs ==
    [epochs : 0 .. MaxEpochs,
     max_seq_len : 1 .. MaxSeqLen,
     batch_size : 1 .. MaxBatchSize,
     learning_rate : {Rat(1, d) : d \in 1 .. MaxLr},
     vocab_size : {VocabSize},
     seed : Seeds]

\* The state when train() is entered, after Distiller.__init__.
Init ==
    /\ cfg \in {c \in Configs : c.seed = 0}
    /\ \E a \in Vocab, b \in 0 .. 1, n \in 0 .. MaxBatches : dataset = DatasetOf(a, b, n)
    /\ endless = FALSE
    /\ rng = Keys(cfg.seed)
    /\ dtype = "float32"
    /\ probe = Unset
    /\ teacher_params = TeacherInit
    /\ student_params = StudentInit
    /\ state = CreateState(StudentInit)
    /\ pc = "start"
    /\ epoch = 0
    /\ it = 0
    /\ batch = Unset
    /\ i = 0
    /\ step = 0
    /\ logits_teacher = Unset
    /\ one_hot_labels = Unset
    /\ loss = Unset
    /\ grad = Unset
    /\ logs = <<>>
    /\ prefix = None
    /\ logged = {}
    /\ sink = <<>>
    /\ raised = FALSE
    /\ calls = Unset
    /\ history = <<>>

\* ---------------------------------------------------------------- train()
PositionRange_short(max_seq_len) == 1 .. (max_seq_len - 3)

\* range(1, self.params.max_seq_len - 1)
PositionRange(max_seq_len) == 1 .. (max_seq_len - 2)

LabelColumn_two_ahead(pos) == pos + 2

\* The column of the batch that is one-hot encoded at position i.
LabelColumn(pos) == pos + 1

AfterPositionLoop_next_batch == "batch"

\* Where control goes when the position loop is exhausted: the break.
AfterPositionLoop == "break"

\* step = 0, before the loops.
FirstStep == 0

NextStepIndex_stuck(s) == s

\* step += 1
NextStepIndex(s) == s + 1

\* wandb.init(...); step = 0
Start ==
    /\ pc = "start"
    /\ step' = FirstStep
    /\ pc' = "epoch"
    /\ UNCHANGED <<cfg, dataset, endless, rng, dtype, probe,
                   teacher_params, student_params, state, epoch, it,
                   batch, i, logits_teacher, one_hot_labels, loss, grad, logs, prefix,
                   logged, sink, raised, calls, history>>

\* for epoch in range(self.params.epochs): a new iteration of the dataset.
EpochLoop ==
    /\ pc = "epoch"
    /\ IF epoch < cfg.epochs
       THEN pc' = "batch" /\ it' = 0
       ELSE pc' = "done" /\ it' = it
    /\ UNCHANGED <<cfg, dataset, endless, rng, dtype, probe,
                   teacher_params, student_params, state, epoch, batch,
                   i, step, logits_teacher, one_hot_labels, loss, grad, logs, prefix,
                   logged, sink, raised, calls, history>>

\* The dataset iterator has a batch to yield after yielding n of them.
HasNext(n) == IF endless THEN DOMAIN dataset # {} ELSE n \in DOMAIN dataset

\* The batch the dataset iterator yields after yielding n of them.
NextBatch(n) == dataset[n % Cardinality(DOMAIN dataset)]

\* for batch in self.dataset: the next batch, or the iteration is exhausted.
BatchLoop ==
    /\ pc = "batch"
    /\ it < MaxYield
    /\ IF HasNext(it)
       THEN /\ batch' = NextBatch(it)
            /\ it' = it + 1
            /\ i' = 1
            /\ pc' = "pos"
            /\ epoch' = epoch
       ELSE /\ epoch' = epoch + 1
            /\ pc' = "epoch"
            /\ UNCHANGED <<batch, it, i>>
    /\ UNCHANGED <<cfg, dataset, endless, rng, dtype, probe,
                   teacher_params, student_params, state, step,
                   logits_teacher, one_hot_labels, loss, grad, logs, prefix, logged,
                   sink, raised, calls, history>>

\* for i in range(1, self.params.max_seq_len - 1)
PositionLoop ==
    /\ pc = "pos"
    /\ pc' = IF i \in PositionRange(cfg.max_seq_len) THEN "teacher" ELSE AfterPositionLoop
    /\ UNCHANGED <<cfg, dataset, endless, rng, dtype, probe,
                   teacher_params, student_params, state, epoch, it,
                   batch, i, step, logits_teacher, one_hot_labels, loss, grad, logs,
                   prefix, logged, sink, raised, calls, history>>

\* break: leave the batch loop, on to the next epoch.
Break ==
    /\ pc = "break"
    /\ epoch' = epoch + 1
    /\ pc' = "epoch"
    /\ UNCHANGED <<cfg, dataset, endless, rng, dtype, probe,
                   teacher_params, student_params, state, it, batch, i,
                   step, logits_teacher, one_hot_labels, loss, grad, logs, prefix,
                   logged, sink, raised, calls, history>>

TeacherStep_cached ==
    /\ pc = "teacher"
    /\ logits_teacher' = IF logits_teacher = Unset
                         THEN TeacherStepFn(teacher_params, Ctx(batch, i))
                         ELSE logits_teacher
    /\ calls' = [teacher |-> Ctx(batch, i)]
    /\ pc' = "labels"
    /\ UNCHANGED <<cfg, dataset, endless, rng, dtype, probe,
                   teacher_params, student_params, state, epoch, it,
                   batch, i, step, one_hot_labels, loss, grad, logs, prefix, logged,
                   sink, raised, history>>

\* logits_teacher = self.batched_teacher_step(self.teacher_params, batch[:, :i])
TeacherStep ==
    /\ pc = "teacher"
    /\ logits_teacher' = TeacherStepFn(teacher_params, Ctx(batch, i))
    /\ calls' = [teacher |-> Ctx(batch, i)]
    /\ pc' = "labels"
    /\ UNCHANGED <<cfg, dataset, endless, rng, dtype, probe,
                   teacher_params, student_params, state, epoch, it,
                   batch, i, step, one_hot_labels, loss, grad, logs, prefix, logged,
                   sink, raised, history>>

\* one_hot_labels = one_hot(batch[:, i + 1], self.params.vocab_size)
OneHotStep ==
    /\ pc = "labels"
    /\ one_hot_labels' = OneHot(Column(batch, LabelColumn(i)), cfg.vocab_size)
    /\ pc' = "grad"
    /\ UNCHANGED <<cfg, dataset, endless, rng, dtype, probe,
                   teacher_params, student_params, state, epoch, it,
                   batch, i, step, logits_teacher, loss, grad, logs, prefix, logged,
                   sink, raised, calls, history>>

ValueAndGradStep_accumulates ==
    /\ pc = "grad"
    /\ LET at == state.params
           c == Ctx(batch, i)
           g == AverageGrad(GradLoss(dtype, at, logits_teacher, c, one_hot_labels),
                            cfg.batch_size)
       IN  /\ loss' = AverageLoss(ComputeLoss(dtype, at, logits_teacher, c,
                                              one_hot_labels),
                                  cfg.batch_size)
           /\ grad' = IF grad = Unset THEN g
                      ELSE [v \in DOMAIN g |-> RatAdd(grad[v], g[v])]
           /\ calls' = [teacher |-> calls.teacher, student |-> c, at |-> at]
    /\ pc' = "apply"
    /\ UNCHANGED <<cfg, dataset, endless, rng, dtype, probe,
                   teacher_params, student_params, state, epoch, it,
                   batch, i, step, logits_teacher, one_hot_labels, logs, prefix,
                   logged, sink, raised, history>>

\* loss, grad = grad_fn(self.state.params, logits_teacher, batch[:, :i],
\* one_hot_labels), then both divided by batch_size.
ValueAndGradStep ==
    /\ pc = "grad"
    /\ LET at == state.params
           c == Ctx(batch, i)
       IN  /\ loss' = AverageLoss(ComputeLoss(dtype, at, logits_teacher, c,
                                              one_hot_labels),
                                  cfg.batch_size)
           /\ grad' = AverageGrad(GradLoss(dtype, at, logits_teacher, c,
                                           one_hot_labels),
                                  cfg.batch_size)
           /\ calls' = [teacher |-> calls.teacher, student |-> c, at |-> at]
    /\ pc' = "apply"
    /\ UNCHANGED <<cfg, dataset, endless, rng, dtype, probe,
                   teacher_params, student_params, state, epoch, it,
                   batch, i, step, logits_teacher, one_hot_labels, logs, prefix,
                   logged, sink, raised, history>>

\* What the completed update is remembered by.
UpdateRecord(new_state) ==
    [epoch |-> epoch, batch |-> it - 1, i |-> i, step |-> step,
     teacher_ctx |-> calls.teacher, student_ctx |-> calls.student,
     logits_teacher |-> logits_teacher, labels |-> one_hot_labels,
     old |-> state.params, at |-> calls.at, new |-> new_state.params,
     loss |-> loss, grad |-> grad, seed |-> cfg.seed, new_step |-> new_state.step]

ApplyGradientStep_shares_teacher ==
    /\ pc = "apply"
    /\ state' = ApplyGradient(state, grad, cfg.learning_rate)
    /\ student_params' = state'.params
    /\ teacher_params' = state'.params
    /\ history' = Append(history, UpdateRecord(state'))
    /\ pc' = "logs"
    /\ UNCHANGED <<cfg, dataset, endless, rng, dtype, probe,
                   epoch, it, batch, i, step, logits_teacher,
                   one_hot_labels, loss, grad, logs, prefix, logged, sink, raised,
                   calls>>

ApplyGradientStep_stale_student ==
    /\ pc = "apply"
    /\ state' = ApplyGradient(state, grad, cfg.learning_rate)
    /\ history' = Append(history, UpdateRecord(state'))
    /\ pc' = "logs"
    /\ UNCHANGED <<cfg, dataset, endless, rng, dtype, probe,
                   teacher_params, student_params, epoch, it, batch, i,
                   step, logits_teacher, one_hot_labels, loss, grad, logs, prefix,
                   logged, sink, raised, calls>>

\* self.state = self.state.apply_gradient(grads=grad, learning_rate=...)
\* self.student_params = self.state.params
ApplyGradientStep ==
    /\ pc = "apply"
    /\ state' = ApplyGradient(state, grad, cfg.learning_rate)
    /\ student_params' = state'.params
    /\ history' = Append(history, UpdateRecord(state'))
    /\ pc' = "logs"
    /\ UNCHANGED <<cfg, dataset, endless, rng, dtype, probe,
                   teacher_params, epoch, it, batch, i, step,
                   logits_teacher, one_hot_labels, loss, grad, logs, prefix, logged,
                   sink, raised, calls>>

BuildLogs_norms_before_update ==
    /\ pc = "logs"
    /\ logs' = DictUpdate(<<<<K_loss, loss>>, <<K_learning_rate, cfg.learning_rate>>>>,
                          LogParamNorm(grad, [params |-> calls.at, step |-> state.step]))
    /\ prefix' = None
    /\ logged' = {}
    /\ pc' = "log"
    /\ UNCHANGED <<cfg, dataset, endless, rng, dtype, probe,
                   teacher_params, student_params, state, epoch, it,
                   batch, i, step, logits_teacher, one_hot_labels, loss, grad, sink,
                   raised, calls, history>>

\* logs = {"loss": ..., "learning_rate": ...}; logs.update(self._log_param_norm(grad))
\* and the call self._log_metrics(logs, step) is made on every process.
BuildLogs ==
    /\ pc = "logs"
    /\ logs' = DictUpdate(<<<<K_loss, loss>>, <<K_learning_rate, cfg.learning_rate>>>>,
                          LogParamNorm(grad, state))
    /\ prefix' = None
    /\ logged' = {}
    /\ pc' = "log"
    /\ UNCHANGED <<cfg, dataset, endless, rng, dtype, probe,
                   teacher_params, student_params, state, epoch, it,
                   batch, i, step, logits_teacher, one_hot_labels, loss, grad, sink,
                   raised, calls, history>>

\* _log_metrics(metrics, step, prefix) on process p.
LogMetrics(p) ==
    /\ pc = "log"
    /\ p \notin logged
    /\ sink' = sink \o LogMetricsWrites(p, logs, step, prefix)
    /\ logged' = logged \cup {p}
    /\ UNCHANGED <<cfg, dataset, endless, rng, dtype, probe,
                   teacher_params, student_params, state, pc, epoch, it,
                   batch, i, step, logits_teacher, one_hot_labels, loss, grad, logs,
                   prefix, raised, calls, history>>

\* step += 1, and the position loop advances.
StepIncrement ==
    /\ pc = "log"
    /\ logged = Procs
    /\ step' = NextStepIndex(step)
    /\ i' = i + 1
    /\ pc' = "pos"
    /\ UNCHANGED <<cfg, dataset, endless, rng, dtype, probe,
                   teacher_params, student_params, state, epoch, it,
                   batch, logits_teacher, one_hot_labels, loss, grad, logs, prefix,
                   logged, sink, raised, calls, history>>

OnFailure_swallowed == "logs"

\* Where control goes when a call of the inner step raises.
OnFailure == "raised"

\* The teacher step, the value-and-gradient or the gradient application raises:
\* nothing catches it.
Fail ==
    /\ pc \in {"teacher", "grad", "apply"}
    /\ raised' = TRUE
    /\ pc' = OnFailure
    /\ UNCHANGED <<cfg, dataset, endless, rng, dtype, probe,
                   teacher_params, student_params, state, epoch, it,
                   batch, i, step, logits_teacher, one_hot_labels, loss, grad, logs,
                   prefix, logged, sink, calls, history>>

Next ==
    \/ Start
    \/ EpochLoop
    \/ BatchLoop
    \/ PositionLoop
    \/ Break
    \/ TeacherStep
    \/ OneHotStep
    \/ ValueAndGradStep
    \/ ApplyGradientStep
    \/ BuildLogs
    \/ \E p \in Procs : LogMetrics(p)
    \/ StepIncrement
    \/ Fail

Spec == Init /\ [][Next]_vars

\* train() entered with a dataset that may never stop yielding; the thread of
\* train() keeps running while it has a step to take.
InitFair ==
    /\ cfg \in {c \in Configs : c.batch_size = 1 /\ c.learning_rate = RatInt(1)
                                /\ c.seed = 0}
    /\ \E a \in Vocab, b \in 0 .. 1, n \in 0 .. MaxBatches : dataset = DatasetOf(a, b, n)
    /\ endless \in {e \in BOOLEAN : e => dataset # <<>>}
    /\ rng = Keys(cfg.seed)
    /\ dtype = "float32"
    /\ probe = Unset
    /\ teacher_params = TeacherInit
    /\ student_params = StudentInit
    /\ state = CreateState(StudentInit)
    /\ pc = "start"
    /\ epoch = 0
    /\ it = 0
    /\ batch = Unset
    /\ i = 0
    /\ step = 0
    /\ logits_teacher = Unset
    /\ one_hot_labels = Unset
    /\ loss = Unset
    /\ grad = Unset
    /\ logs = <<>>
    /\ prefix = None
    /\ logged = {}
    /\ sink = <<>>
    /\ raised = FALSE
    /\ calls = Unset
    /\ history = <<>>

\* The positions of train().
Positions == {"start", "epoch", "batch", "pos", "break", "teacher", "labels", "grad",
              "apply", "logs", "log", "done", "raised"}

\* train() has a step to take: it has neither returned nor raised, and the
\* dataset iterator answers. Every step of Next changes pc or logged, so a
\* thread that keeps running is one that keeps changing them.
Running ==
    /\ pc \notin {"done", "raised"}
    /\ pc = "batch" => it < MaxYield
    /\ pc' \in Positions
    /\ logged' \in SUBSET Procs

FairSpec == InitFair /\ [][Next]_vars /\ WF_<<pc, logged>>(Running)

\* ------------------------------------------------ one inner step, run twice
\* The parameter trees an inner step may start from.
StepParams == {StudentInit, TeacherInit}

\* train() about to run the inner step of position i on the first batch, from
\* any Training state and with the step counter anywhere.
InitStep ==
    /\ cfg \in {c \in Configs : c.epochs = 1 /\ PositionRange(c.max_seq_len) # {}
                                /\ c.batch_size = 1 /\ c.learning_rate = RatInt(1)}
    /\ \E a \in Vocab, b \in 0 .. 1 : dataset = DatasetOf(a, b, 1)
    /\ endless = FALSE
    /\ rng = Keys(cfg.seed)
    /\ dtype \in {"float32", "bfloat16"}
    /\ probe = Unset
    /\ teacher_params = TeacherInit
    /\ student_params \in StepParams
    /\ \E k \in 0 .. 1 : state = [params |-> student_params, step |-> k] /\ step = k
    /\ pc = "teacher"
    /\ epoch = 0
    /\ it = 1
    /\ batch = dataset[0]
    /\ i \in PositionRange(cfg.max_seq_len)
    /\ logits_teacher = Unset
    /\ one_hot_labels = Unset
    /\ loss = Unset
    /\ grad = Unset
    /\ logs = <<>>
    /\ prefix = None
    /\ logged = {}
    /\ sink = <<>>
    /\ raised = FALSE
    /\ calls = Unset
    /\ history = <<>>

\* The same inner step once more: the Training state it started from is put
\* back, batch and position are the same, the trainer's keys come from any
\* seed; the locals of the first execution and the step counter stay as the
\* first execution left them.
Rerun ==
    /\ pc = "logs"
    /\ Len(history) = 1
    /\ \E s \in Seeds : cfg' = [cfg EXCEPT !.seed = s] /\ rng' = Keys(s)
    /\ state' = [params |-> history[1].old, step |-> state.step - 1]
    /\ student_params' = state'.params
    /\ step' = NextStepIndex(step)
    /\ pc' = "teacher"
    /\ UNCHANGED <<dataset, endless, dtype, probe, teacher_params, epoch, it, batch, i,
                   logits_teacher, one_hot_labels, loss, grad, logs, prefix, logged,
                   sink, raised, calls, history>>

NextStep ==
    \/ TeacherStep
    \/ OneHotStep
    \/ ValueAndGradStep
    \/ ApplyGradientStep
    \/ Rerun

SpecStep == InitStep /\ [][NextStep]_vars

\* ------------------------------------------- the options object (params)
\* The fields of the Hparams dataclass.
HparamsFields ==
    {"wandb_entity", "wandb_project", "root_dir", "teacher_path", "student_path",
     "epochs", "batch_size", "path_bin_data", "max_seq_len"}

\* Hparams(...): every field has a default, the numeric ones may be overridden.
HparamsInstances ==
    [wandb_entity : {"distill-bloom"},
     wandb_project : {"test-small-distillation"},
     root_dir : {"cwd"},
     teacher_path : {"bigscience/bloom-1b3"},
     student_path : {"bigscience/distill-bloom-1b3"},
     epochs : 0 .. MaxEpochs,
     batch_size : 1 .. MaxBatchSize,
     path_bin_data : {"binarized_data"},
     max_seq_len : 1 .. MaxSeqLen]

\* The attributes of self.params that Distiller.__init__ reads, in order.
ConstructorReads == <<"seed", "learning_rate">>

\* The attributes of self.params that the call of wandb.init reads, in order.
WandbInitReads == <<"wandb_project", "wandb_entity", "wandb_logs">>

\* The attributes of self.params that train() reads at each of its positions.
OptionsRead(at) ==
    CASE at = "epoch" -> {"epochs"}
      [] at = "pos" -> {"max_seq_len"}
      [] at = "labels" -> {"vocab_size"}
      [] at = "grad" -> {"batch_size"}
      [] at = "apply" -> {"learning_rate"}
      [] at = "logs" -> {"learning_rate"}
      [] OTHER -> {}

TrainPositions ==
    {"start", "epoch", "batch", "pos", "break", "teacher", "labels", "grad", "apply",
     "logs", "log"}

Range(seq) == {seq[n] : n \in DOMAIN seq}

\* Every attribute of self.params the trainer reads.
OptionsUsed ==
    Range(ConstructorReads) \cup Range(WandbInitReads)
        \cup UNION {OptionsRead(at) : at \in TrainPositions}

\* getattr(self.params, name) succeeds.
HasAttr(name) == name \in DOMAIN cfg

\* The first attribute of reads that self.params lacks, or None.
RECURSIVE FirstMissing(_)
FirstMissing(reads) ==
    IF reads = <<>> THEN None
    ELSE IF ~HasAttr(Head(reads)) THEN Some(Head(reads))
    ELSE FirstMissing(Tail(reads))

\* Attributes a caller may set on an Hparams instance before handing it over.
ExtraValue(name) ==
    CASE name = "seed" -> 0
      [] name = "learning_rate" -> RatInt(1)
      [] name = "vocab_size" -> VocabSize
      [] OTHER -> "unset"

WithAttrs(h, names) == [n \in names |-> ExtraValue(n)] @@ h

ParamsObjects ==
    {WithAttrs(h, E) : h \in HparamsInstances, E \in SUBSET (OptionsUsed \ HparamsFields)}

\* Before Distiller(params, dataset, ...) is called.
InitCfg ==
    /\ cfg \in ParamsObjects
    /\ \E n \in 0 .. 1 : dataset = DatasetOf(0, 1, n)
    /\ endless = FALSE
    /\ rng = Unset
    /\ dtype = "float32"
    /\ probe = Unset
    /\ teacher_params = TeacherInit
    /\ student_params = StudentInit
    /\ state = Unset
    /\ pc = "init"
    /\ epoch = 0
    /\ it = 0
    /\ batch = Unset
    /\ i = 0
    /\ step = 0
    /\ logits_teacher = Unset
    /\ one_hot_labels = Unset
    /\ loss = Unset
    /\ grad = Unset
    /\ logs = <<>>
    /\ prefix = None
    /\ logged = {}
    /\ sink = <<>>
    /\ raised = FALSE
    /\ calls = Unset
    /\ history = <<>>

\* Distiller.__init__: the keys from params.seed, then the optimizer and the
\* Training state from params.learning_rate; a missing attribute raises.
Construct ==
    /\ pc = "init"
    /\ IF HasAttr("seed")
       THEN rng' = Keys(cfg.seed)
       ELSE rng' = rng
    /\ IF FirstMissing(ConstructorReads) = None
       THEN /\ state' = CreateState(student_params)
            /\ pc' = "wandb"
            /\ raised' = raised
       ELSE /\ state' = state
            /\ pc' = OnFailure
            /\ raised' = TRUE
    /\ UNCHANGED <<cfg, dataset, endless, dtype, probe, teacher_params, student_params,
                   epoch, it, batch, i, step, logits_teacher, one_hot_labels, loss,
                   grad, logs, prefix, logged, sink, calls, history>>

\* The arguments of wandb.init(...) at the head of train() are evaluated.
WandbInit ==
    /\ pc = "wandb"
    /\ IF FirstMissing(WandbInitReads) = None
       THEN pc' = "start" /\ raised' = raised
       ELSE pc' = OnFailure /\ raised' = TRUE
    /\ UNCHANGED <<cfg, dataset, endless, rng, dtype, probe,
                   teacher_params, student_params, state, epoch, it,
                   batch, i, step, logits_teacher, one_hot_labels, loss, grad, logs,
                   prefix, logged, sink, calls, history>>

\* The statement train() is at reads an attribute self.params lacks.
MissingOption ==
    /\ pc \in TrainPositions
    /\ \E name \in OptionsRead(pc) : ~HasAttr(name)
    /\ raised' = TRUE
    /\ pc' = OnFailure
    /\ UNCHANGED <<cfg, dataset, endless, rng, dtype, probe,
                   teacher_params, student_params, state, epoch, it,
                   batch, i, step, logits_teacher, one_hot_labels, loss, grad, logs,
                   prefix, logged, sink, calls, history>>

\* The statement train() is at finds every attribute it reads.
OptionsPresent == \A name \in OptionsRead(pc) : HasAttr(name)

NextCfg ==
    \/ Construct
    \/ WandbInit
    \/ MissingOption
    \/ Start
    \/ OptionsPresent /\ EpochLoop
    \/ BatchLoop
    \/ OptionsPresent /\ PositionLoop
    \/ Break
    \/ TeacherStep
    \/ OptionsPresent /\ OneHotStep
    \/ OptionsPresent /\ ValueAndGradStep
    \/ OptionsPresent /\ ApplyGradientStep
    \/ OptionsPresent /\ BuildLogs
    \/ \E p \in Procs : LogMetrics(p)
    \/ StepIncrement

SpecCfg == InitCfg /\ [][NextCfg]_vars

\* ------------------------------------------------- _log_metrics on its own
KeyPool == {K_loss, K_param_norm, K_layer_grad_norm, K_x_slash, K_layer_x}
PrefixPool == {None, Some(K_train), Some(K_layer)}

\* The dicts of at most MaxMetrics metrics over KeyPool.
MetricDicts ==
    {d \in UNION {[1 .. n -> KeyPool \X {1, 2}] : n \in 0 .. MaxMetrics} :
        \A m, n \in DOMAIN d : m # n => d[m][1] # d[n][1]}

\* A call _log_metrics(metrics, step, prefix) about to be made on every process.
InitLog ==
    /\ cfg \in {c \in Configs : c.epochs = 0 /\ c.max_seq_len = 2
                                /\ c.batch_size = 1 /\ c.learning_rate = RatInt(1)
                                /\ c.seed = 0}
    /\ dataset = DatasetOf(0, 0, 0)
    /\ endless = FALSE
    /\ rng = Keys(cfg.seed)
    /\ dtype = "float32"
    /\ probe = Unset
    /\ teacher_params = TeacherInit
    /\ student_params = StudentInit
    /\ state = CreateState(StudentInit)
    /\ pc = "log"
    /\ epoch = 0
    /\ it = 0
    /\ batch = Unset
    /\ i = 0
    /\ step \in 0 .. 1
    /\ logits_teacher = Unset
    /\ one_hot_labels = Unset
    /\ loss = Unset
    /\ grad = Unset
    /\ logs \in MetricDicts
    /\ prefix \in PrefixPool
    /\ logged = {}
    /\ sink = <<>>
    /\ raised = FALSE
    /\ calls = Unset
    /\ history = <<>>

NextLog == \E p \in Procs : LogMetrics(p)

SpecLog == InitLog /\ [][NextLog]_vars

\* ------------------------------------------------ the loss terms on their own
\* The logits a call is made with: 13/10 is not a bfloat16 or float16 value,
\* and a gap of 18 nats is past both the exp table and float16's range.
LogitValues == {RatInt(0), Rat(13, 10), RatInt(18)}

\* A logits array of dtype d: x where row + class is even, y where it is odd.
LogitsOf(d, x, y) ==
    Array(d, [r \in Rows |->
                [v \in Vocab |-> RoundTo(IF (r + v) % 2 = 0 THEN x ELSE y, d)]])

\* A one-hot label array of dtype d: row r labels class (r + k) % vocab_size.
LabelsOf(d, k) ==
    Array(d, Labels(OneHot([r \in Rows |-> (r + k) % VocabSize], VocabSize)).val)

LogitArrays == {LogitsOf(d, x, y) : d \in DTypes, x \in LogitValues, y \in LogitValues}
LabelArrays == {LabelsOf(d, k) : d \in DTypes, k \in Vocab}

\* A trainer of any dtype about to call one loss term.
InitLoss ==
    /\ cfg \in {c \in Configs : c.epochs = 0 /\ c.max_seq_len = 2
                                /\ c.batch_size = 1 /\ c.learning_rate = RatInt(1)
                                /\ c.seed = 0}
    /\ dataset = DatasetOf(0, 0, 0)
    /\ endless = FALSE
    /\ rng = Keys(cfg.seed)
    /\ dtype \in DTypes
    /\ \/ \E s \in LogitArrays, t \in LogitArrays :
             probe = [fn |-> "ce", student |-> s, other |-> t, returned |-> FALSE]
       \/ \E s \in LogitArrays, l \in LabelArrays :
             probe = [fn |-> "lm", student |-> s, other |-> l, returned |-> FALSE]
    /\ teacher_params = TeacherInit
    /\ student_params = StudentInit
    /\ state = CreateState(StudentInit)
    /\ pc = "done"
    /\ epoch = 0
    /\ it = 0
    /\ batch = Unset
    /\ i = 0
    /\ step = 0
    /\ logits_teacher = Unset
    /\ one_hot_labels = Unset
    /\ loss = Unset
    /\ grad = Unset
    /\ logs = <<>>
    /\ prefix = None
    /\ logged = {}
    /\ sink = <<>>
    /\ raised = FALSE
    /\ calls = Unset
    /\ history = <<>>

\* What the call is remembered by: the arrays the softmax is taken of, and the
\* value returned.
Returned(used_student, used_other, out) ==
    [fn |-> probe.fn, student |-> probe.student, other |-> probe.other,
     returned |-> TRUE, used_student |-> used_student, used_other |-> used_other,
     out |-> out]

\* self._ce_loss(logits_student, logits_teacher)
CallCeLoss ==
    /\ probe # Unset
    /\ probe.fn = "ce" /\ ~probe.returned
    /\ probe' = Returned(CastInput(dtype, probe.student), CastInput(dtype, probe.other),
                         CeLoss(dtype, probe.student, probe.other))
    /\ UNCHANGED <<cfg, dataset, endless, rng, dtype, teacher_params, student_params,
                   state, pc, epoch, it, batch, i, step, logits_teacher, one_hot_labels,
                   loss, grad, logs, prefix, logged, sink, raised, calls, history>>

\* self._lm_loss(logits_student, one_hot_label)
CallLmLoss ==
    /\ probe # Unset
    /\ probe.fn = "lm" /\ ~probe.returned
    /\ probe' = Returned(CastInput(dtype, probe.student), CastInput(dtype, probe.other),
                         LmLoss(dtype, probe.student, probe.other))
    /\ UNCHANGED <<cfg, dataset, endless, rng, dtype, teacher_params, student_params,
                   state, pc, epoch, it, batch, i, step, logits_teacher, one_hot_labels,
                   loss, grad, logs, prefix, logged, sink, raised, calls, history>>

NextLoss == CallCeLoss \/ CallLmLoss

SpecLoss == InitLoss /\ [][NextLoss]_vars

\* ------------------------------------------------------------------ claims
NumBatches == Cardinality(DOMAIN dataset)
InInnerStep == pc \in {"pos", "teacher", "labels", "grad", "apply", "logs", "log"}

\* C1: in every epoch train() trains on exactly one batch, the first one a
\* fresh iteration of the dataset yields; no later batch is ever used in a
\* parameter update.
C1_FirstBatchOnly ==
    /\ \A k \in DOMAIN history : history[k].batch = 0
    /\ it <= 1
    /\ InInnerStep => (it = 1 /\ batch = dataset[0])
    /\ \A j, k \in DOMAIN history :
          (history[j].epoch = history[k].epoch) => (history[j].batch = history[k].batch)

C1_Witness ==
    /\ pc = "done"
    /\ NumBatches >= 2
    /\ \E j, k \in DOMAIN history : history[j].epoch = 0 /\ history[k].epoch = 1

\* C2: for the batch of an epoch the inner step runs for i = 1, ...,
\* max_seq_len - 2, in increasing order and each once, on the context
\* batch[:, :i]; the break skips none of them.
PositionsPerEpoch == IF cfg.max_seq_len > 2 THEN cfg.max_seq_len - 2 ELSE 0

C2_EveryPositionInOrder ==
    /\ \A k \in DOMAIN history :
          /\ history[k].i = ((k - 1) % PositionsPerEpoch) + 1
          /\ history[k].epoch = (k - 1) \div PositionsPerEpoch
          /\ history[k].student_ctx =
                [r \in Rows |-> [j \in 0 .. (history[k].i - 1) |->
                                    dataset[history[k].batch][r][j]]]
          /\ history[k].teacher_ctx = history[k].student_ctx
    /\ pc = "break" => Len(history) = (epoch + 1) * PositionsPerEpoch
    /\ (pc = "done" /\ NumBatches > 0) => Len(history) = cfg.epochs * PositionsPerEpoch

C2_Witness ==
    /\ pc = "done"
    /\ cfg.max_seq_len = MaxSeqLen
    /\ Len(history) = cfg.epochs * (MaxSeqLen - 2)
    /\ cfg.epochs >= 2

\* C3: at the inner step for position i the one-hot label encodes the token
\* that immediately follows the context [0..i), the token at index i.
C3_LabelIsNextToken ==
    pc \in {"grad", "apply"} =>
        \A r \in Rows : \A v \in Vocab :
            (one_hot_labels[r][v] = 1) <=> (batch[r][i] = v)

\* C4: every inner step replaces the student parameters by one update
\* new = old - learning_rate * g, g the gradient of the combined loss at old
\* divided by batch_size, learning_rate the configured constant.
ParamsBefore(k) == IF k = 1 THEN StudentInit ELSE history[k - 1].new

C4_GradientDescentUpdate ==
    /\ \A k \in DOMAIN history : history[k].old = ParamsBefore(k)
    /\ state.params = ParamsBefore(Len(history) + 1)
    /\ state.step = Len(history)
    /\ pc = "logs" =>
          LET h == history[Len(history)]
              raw == GradLoss(dtype, h.old, h.logits_teacher, h.student_ctx, h.labels)
          IN  \A v \in Vocab :
                  h.new[v] = RatSub(h.old[v],
                                    RatMul(cfg.learning_rate,
                                           RatDivInt(raw[v], cfg.batch_size)))

C4_Witness ==
    /\ pc = "logs"
    /\ Len(history) >= 2
    /\ cfg.batch_size >= 2
    /\ cfg.learning_rate # RatInt(1)
    /\ history[2].new # history[2].old

\* C5: loss and gradient are taken on the un-normalized sum and divided by
\* batch_size afterwards: logged loss * batch_size is the un-normalized sum
\* and applied gradient * batch_size is the un-normalized gradient.
SinkValue(k, key) == DictGet(sink[k].data, key)

C5_AveragedAfterGradient ==
    /\ pc = "logs" =>
          LET h == history[Len(history)]
              ls == Logits(Forward(h.old, h.student_ctx))
              sum == RatAdd(CeLoss(dtype, ls, Logits(h.logits_teacher)),
                            LmLoss(dtype, ls, Labels(h.labels)))
              raw == GradLoss(dtype, h.old, h.logits_teacher, h.student_ctx, h.labels)
          IN  /\ RatMul(h.loss, RatInt(cfg.batch_size)) = sum
              /\ \A v \in Vocab : RatMul(h.grad[v], RatInt(cfg.batch_size)) = raw[v]
    /\ \A k \in DOMAIN sink : SinkValue(k, K_loss) = history[k].loss

C5_Witness ==
    /\ pc = "logs"
    /\ Len(sink) >= 2
    /\ cfg.batch_size >= 2
    /\ history[2].loss # RatInt(0)
    /\ \E v \in Vocab : history[2].grad[v] # RatInt(0)

\* C6: the teacher parameters are read-only: after any inner step and after
\* a whole run they are what they were when train() started.
C6_TeacherReadOnly == teacher_params = TeacherInit

C6_Witness ==
    /\ pc = "done"
    /\ Len(history) >= 2
    /\ state.params # StudentInit
    /\ teacher_params = TeacherInit

\* C7: metrics are logged once per inner step with step indices 0, 1, 2, ...
\* with no gap, no repeat and no reset between epochs.
LogPending == pc = "logs" \/ (pc = "log" /\ 0 \notin logged)

C7_StepIndicesCount ==
    /\ \A k \in DOMAIN sink : sink[k].step = k - 1
    /\ Len(sink) = Len(history) - (IF LogPending THEN 1 ELSE 0)
    /\ pc \in {"pos", "break", "epoch", "batch", "done"} => step = Len(sink)

C7_Witness ==
    /\ pc = "done"
    /\ Len(sink) >= 3
    /\ \E k \in DOMAIN history : history[k].epoch = 1

\* C8: a failure of the teacher step, of the value-and-gradient or of the
\* gradient application leaves train(): nothing runs afterwards, the failed
\* step logs nothing and the Training state is that of the last completed
\* update.
C8_FailurePropagates ==
    /\ [](raised =>
            /\ pc = "raised"
            /\ Len(sink) = Len(history)
            /\ step = Len(history)
            /\ state.params = ParamsBefore(Len(history) + 1)
            /\ state.step = Len(history)
            /\ student_params = state.params)
    /\ [][raised => UNCHANGED vars]_vars

C8_Witness ==
    /\ raised
    /\ Len(history) >= 1
    /\ loss # history[Len(history)].loss

\* C9: only process 0 writes to the metrics sink; on every other process
\* _log_metrics is a no-op, so a step's metrics are written at most once.
C9_OnlyProcessZeroWrites ==
    /\ \A k \in DOMAIN sink : sink[k].proc = 0
    /\ \A j, k \in DOMAIN sink : j # k => sink[j].step # sink[k].step
    /\ (pc = "log" /\ logged = Procs) => \E k \in DOMAIN sink : sink[k].step = step

C9_Witness ==
    /\ pc = "log"
    /\ logged = Procs
    /\ Cardinality(logged) >= 2
    /\ Len(sink) >= 2

\* C10 as stated: _log_metrics maps every metric to exactly one output entry
\* with the same value, a key containing "layer" without the prefix, any other
\* key as prefix/key or under its own name; no metric is dropped.
ClaimedKey(k, pre) ==
    IF HasLayer(k) THEN k \o K_slash
    ELSE IF pre = None THEN k
    ELSE pre[1] \o K_slash \o k

Written == sink[1].data

C10_EveryMetricKept ==
    (pc = "log" /\ 0 \in logged) =>
        /\ Len(Written) = Len(logs)
        /\ \A n \in DOMAIN logs :
              /\ ClaimedKey(logs[n][1], prefix) \in DictKeys(Written)
              /\ DictGet(Written, ClaimedKey(logs[n][1], prefix)) = logs[n][2]

\* C10 amended: every metric is filed under that key, and a metric is lost
\* only to a later metric with the same output key, which takes a prefix
\* that contains "layer"; without one no metric is dropped.
Overwritten(n) ==
    \E m \in DOMAIN logs :
        m > n /\ ClaimedKey(logs[m][1], prefix) = ClaimedKey(logs[n][1], prefix)

C10_MetricKeptUnlessKeyClash ==
    (pc = "log" /\ 0 \in logged) =>
        /\ Len(sink) = 1
        /\ DictKeys(Written) = {ClaimedKey(logs[n][1], prefix) : n \in DOMAIN logs}
        /\ \A n \in DOMAIN logs :
              ~Overwritten(n) =>
                  DictGet(Written, ClaimedKey(logs[n][1], prefix)) = logs[n][2]
        /\ (\E n \in DOMAIN logs : Overwritten(n)) => (prefix # None /\ HasLayer(prefix[1]))
        /\ (prefix = None \/ ~HasLayer(prefix[1])) => Len(Written) = Len(logs)

C10_Witness ==
    /\ pc = "log"
    /\ 0 \in logged
    /\ prefix = Some(K_train)
    /\ Len(logs) = 2
    /\ Len(Written) = 2
    /\ \E n \in DOMAIN logs : HasLayer(logs[n][1])
    /\ \E n \in DOMAIN logs : ~HasLayer(logs[n][1])


\* C11: the record logged for every inner step contains the keys loss,
\* learning_rate, param_norm and transformer_grad_norm.
C11_LoggedKeys ==
    \A k \in DOMAIN sink :
        {K_loss, K_learning_rate, K_param_norm, K_transformer_grad_norm}
            \subseteq DictKeys(sink[k].data)

C11_Witness ==
    /\ pc = "done"
    /\ Len(sink) >= 2
    /\ Len(sink) = Len(history)

\* C12: every inner step yields a student parameter tree with the names and
\* shapes of the tree before it, so the tree keeps the structure it had at
\* construction.
IsScalarLeaf(x) == Len(x) = 2 /\ x[2] > 0
SameStructure(t, u) ==
    /\ DOMAIN t = DOMAIN u
    /\ \A v \in DOMAIN t : IsScalarLeaf(t[v]) /\ IsScalarLeaf(u[v])

C12_TreeStructureKept ==
    /\ SameStructure(state.params, StudentInit)
    /\ SameStructure(student_params, StudentInit)
    /\ \A k \in DOMAIN history : SameStructure(history[k].new, history[k].old)

C12_Witness ==
    /\ pc = "done"
    /\ Len(history) >= 2
    /\ \A v \in Vocab : state.params[v] # StudentInit[v]


\* C18: the Training state is replaced exactly once per inner step and never
\* otherwise: after k completed inner steps it is the k-th of a chain of gradient
\* applications that starts at the state built at construction, and
\* self.student_params is self.state.params at construction and after every
\* inner step.
InnerStepsCompleted == step + (IF pc \in {"logs", "log"} THEN 1 ELSE 0)

StateChain ==
    /\ state.step = Len(history)
    /\ state.params = IF history = <<>> THEN CreateState(StudentInit).params
                      ELSE history[Len(history)].new
    /\ \A k \in DOMAIN history :
          /\ history[k].old = IF k = 1 THEN CreateState(StudentInit).params
                              ELSE history[k - 1].new
          /\ history[k].new =
                ApplyGradient([params |-> history[k].old, step |-> k - 1],
                              history[k].grad, cfg.learning_rate).params

C18_StateReplacedOncePerStep ==
    /\ [](/\ StateChain
          /\ pc # "start" /\ ~raised => state.step = InnerStepsCompleted
          /\ student_params = state.params)
    /\ [][state' # state =>
            /\ pc = "apply" /\ pc' = "logs"
            /\ state'.step = state.step + 1
            /\ Len(history') = Len(history) + 1]_vars

C18_Witness ==
    /\ pc = "pos"
    /\ step >= 2
    /\ state.step = step
    /\ student_params = state.params
    /\ student_params # StudentInit

\* C19: in one inner step the teacher and the student are evaluated on the same
\* context batch[:, :i], and the teacher logits and the one-hot label that enter
\* the value-and-gradient are those computed in that step for that position.
StepBatch(h) == dataset[h.batch]

C19_SameContextFreshInputs ==
    /\ \A k \in DOMAIN history :
          LET h == history[k]
          IN  /\ h.teacher_ctx = Ctx(StepBatch(h), h.i)
              /\ h.student_ctx = h.teacher_ctx
              /\ h.logits_teacher = TeacherStepFn(teacher_params, Ctx(StepBatch(h), h.i))
              /\ h.labels = OneHot(Column(StepBatch(h), LabelColumn(h.i)), cfg.vocab_size)
    /\ pc = "apply" =>
          /\ calls.teacher = Ctx(batch, i) /\ calls.student = Ctx(batch, i)
          /\ logits_teacher = TeacherStepFn(teacher_params, Ctx(batch, i))

C19_Witness ==
    /\ Len(history) >= 2
    /\ history[1].logits_teacher # history[2].logits_teacher
    /\ history[1].labels # history[2].labels
    /\ history[2].student_ctx = Ctx(StepBatch(history[2]), history[2].i)


\* C20: train() terminates for any finite epochs and max_seq_len, even on a
\* dataset that never stops yielding; a run in which every dataset iteration
\* yields a batch makes exactly epochs * max(0, max_seq_len - 2) parameter
\* updates, and an empty iteration or a max_seq_len of 2 or less makes none and
\* raises nothing.
UpdatesExpected ==
    IF dataset = <<>> THEN 0
    ELSE cfg.epochs * (IF cfg.max_seq_len - 2 > 0 THEN cfg.max_seq_len - 2 ELSE 0)

C20_TerminatesWithUpdateCount ==
    /\ <>(pc \in {"done", "raised"})
    /\ [](pc = "done" => Len(history) = UpdatesExpected /\ ~raised)
    /\ [](UpdatesExpected = 0 => ~raised /\ history = <<>>)

C20_Witness ==
    /\ pc = "done"
    /\ endless
    /\ Len(history) = cfg.epochs * (cfg.max_seq_len - 2)
    /\ Len(history) >= 4


\* C13: an inner step is deterministic on the full-precision path: executed
\* twice from the same Training state, teacher parameters, batch and position
\* it gives the same loss, the same gradient and the same resulting Training
\* state, whatever the seed of the keys and whatever the first execution left
\* in the trainer's locals and step counter.
C13_StepIsDeterministic ==
    (Len(history) = 2 /\ dtype = "float32") =>
        /\ history[1].old = history[2].old
        /\ history[1].loss = history[2].loss
        /\ history[1].grad = history[2].grad
        /\ history[1].new = history[2].new
        /\ history[1].new_step = history[2].new_step
        /\ state = [params |-> history[1].new, step |-> history[1].new_step]

C13_Witness ==
    /\ Len(history) = 2
    /\ dtype = "float32"
    /\ history[1].seed = history[2].seed
    /\ history[1].step # history[2].step
    /\ history[2].new # history[2].old
    /\ history[2].loss # RatInt(0)


\* C14 as claimed: with a dtype other than float32 both loss terms take the
\* softmax of bfloat16 arrays, whatever arrays they were given; with float32
\* they take it of the arrays as given.
Given == <<probe.student, probe.other>>
Used == <<probe.used_student, probe.used_other>>

C14_InputsCastToBf16 ==
    probe.returned =>
        \A n \in 1 .. 2 :
            IF dtype # "float32" THEN Used[n].dtype = "bfloat16" ELSE Used[n] = Given[n]

\* C14: with a dtype other than float32 both loss terms pass their two inputs
\* through to_bf16, which turns a float32 array into the nearest bfloat16 values
\* and leaves an array of any other dtype as it is; with float32 nothing is cast.
RECURSIVE OddPart(_)
OddPart(n) == IF n % 2 = 0 /\ n # 0 THEN OddPart(n \div 2) ELSE n

RatAbs(x) == <<Abs(x[1]), x[2]>>

\* x has at most 8 significant bits, and is within half a unit in the last place
\* of y.
IsBf16Value(x) == OddPart(x[2]) = 1 /\ OddPart(Abs(x[1])) < Pow2(8)
IsNearestBf16(x, y) ==
    /\ IsBf16Value(x)
    /\ RatLeq(RatMul(RatInt(Pow2(8)), RatAbs(RatSub(x, y))), RatAbs(y))

C14_Float32InputsCastToBf16 ==
    probe.returned =>
        \A n \in 1 .. 2 :
            IF dtype # "float32" /\ Given[n].dtype = "float32"
            THEN /\ Used[n].dtype = "bfloat16"
                 /\ \A c \in Cells :
                       IsNearestBf16(Used[n].val[c[1]][c[2]], Given[n].val[c[1]][c[2]])
            ELSE Used[n] = Given[n]

C14_Witness ==
    /\ probe.returned
    /\ dtype = "bfloat16"
    /\ probe.student.dtype = "float32"
    /\ probe.used_student.dtype = "bfloat16"
    /\ probe.used_student.val # probe.student.val
    /\ probe.other.dtype = "float16"
    /\ probe.used_other = probe.other

\* C15: the next-token loss with a one-hot label is cross-entropy by index
\* lookup: the sum over the rows of -log(student probability of the labelled
\* class + epsilon), the other classes adding nothing.
LabelledClass(r) == CHOOSE v \in Vocab : probe.used_other.val[r][v] = RatInt(1)

IndexLookupLoss ==
    LET s == probe.used_student
    IN  ExtSum([r \in Rows |->
                   NegLogEps(s.dtype, s.val[r], LabelledClass(r),
                             Softmax(s.val[r])[LabelledClass(r)])], Rows)

C15_LmLossIsIndexLookup ==
    (probe.returned /\ probe.fn = "lm") => probe.out = IndexLookupLoss

\* C15 holds where no student probability is a float16 zero.
C15_LookupUnlessFloat16Zero ==
    (probe.returned /\ probe.fn = "lm") =>
        \/ probe.out = IndexLookupLoss
        \/ /\ probe.out = NaN
           /\ \E c \in Cells :
                 ProbIsZero(probe.used_student.dtype, probe.used_student.val[c[1]], c[2])

\* C16 as claimed: the distillation loss is non-negative, and zero when the
\* student and teacher distributions are identical.
SameDistributions ==
    \A r \in Rows : Softmax(probe.used_student.val[r]) = Softmax(probe.used_other.val[r])

C16_ZeroWhenIdentical ==
    (probe.returned /\ probe.fn = "ce") =>
        /\ IsFinite(probe.out) /\ probe.out[1] >= 0
        /\ SameDistributions => probe.out = RatInt(0)

\* C16: the distillation loss is a non-negative number unless a student
\* probability is a float16 zero (then it is +inf, or NaN where the teacher's
\* weight is a float16 zero too); when the student and teacher distributions are
\* identical it is the entropy of that distribution: zero where every row puts
\* all its mass on one class, positive otherwise.
PointMasses ==
    \A c \in Cells :
        Softmax(probe.used_student.val[c[1]])[c[2]] \in {RatInt(0), RatInt(1)}

StudentZeroAt(c) == ProbIsZero(probe.used_student.dtype, probe.used_student.val[c[1]], c[2])
TeacherZeroAt(c) == ProbIsZero(probe.used_other.dtype, probe.used_other.val[c[1]], c[2])

C16_NonNegativeAndEntropyWhenIdentical ==
    (probe.returned /\ probe.fn = "ce") =>
        /\ probe.out = NaN <=> \E c \in Cells : StudentZeroAt(c) /\ TeacherZeroAt(c)
        /\ ~IsFinite(probe.out) <=> \E c \in Cells : StudentZeroAt(c)
        /\ IsFinite(probe.out) => probe.out[1] >= 0
        /\ (IsFinite(probe.out) /\ SameDistributions) =>
              (probe.out = RatInt(0) <=> PointMasses)

C16_Witness ==
    /\ probe.returned /\ probe.fn = "ce"
    /\ SameDistributions
    /\ ~PointMasses
    /\ IsFinite(probe.out) /\ probe.out[1] > 0

C16_WitnessPointMass ==
    /\ probe.returned /\ probe.fn = "ce"
    /\ SameDistributions /\ PointMasses
    /\ probe.out = RatInt(0)



\* C21: on batches at least max_seq_len tokens long no inner step indexes
\* outside the batch: at every position i visited 1 <= i <= max_seq_len - 2, so
\* the context batch[:, :i] is never empty, and the label column is at most
\* max_seq_len - 1, a column the batch has.
SeqLen(b) == Cardinality(DOMAIN b[0])
StepRunning == pc \in {"teacher", "labels", "grad", "apply", "logs", "log"}

C21_IndicesInsideBatch ==
    (StepRunning /\ SeqLen(batch) >= cfg.max_seq_len) =>
        /\ 1 <= i /\ i <= cfg.max_seq_len - 2
        /\ LabelColumn(i) <= cfg.max_seq_len - 1
        /\ \A r \in Rows :
              /\ 0 .. (i - 1) \subseteq DOMAIN batch[r]
              /\ LabelColumn(i) \in DOMAIN batch[r]
        /\ pc # "teacher" => CtxLen(calls.teacher) = i
        /\ pc \in {"apply", "logs", "log"} => CtxLen(calls.student) = i

C21_Witness ==
    /\ pc = "grad"
    /\ cfg.max_seq_len = SeqLen(batch)
    /\ i = cfg.max_seq_len - 2
    /\ i >= 2
    /\ LabelColumn(i) = SeqLen(batch) - 1



\* C22: an inner step runs teacher forward, value-and-gradient at the
\* parameters before the update, gradient application, metric logging and step
\* increment in that order; the record logged for step k holds the loss and the
\* gradient norms computed at the parameters before update k, and the
\* param_norm and layer_param_norm of the parameters after update k.
LayerNorms(t) == [v \in DOMAIN t |-> Norm([u \in {v} |-> t[v]])]
GlobalNorm(t) == Norm(LayerNorms(t))

StepOrder ==
    /\ pc = "teacher" => pc' \in {"labels", "raised"}
    /\ pc = "labels" => pc' = "grad"
    /\ pc = "grad" => pc' \in {"apply", "raised"}
    /\ pc = "apply" => pc' \in {"logs", "raised"}
    /\ pc = "logs" => pc' = "log"
    /\ pc = "log" => pc' \in {"log", "pos"}
    /\ logits_teacher' # logits_teacher => pc = "teacher"
    /\ (loss' # loss \/ grad' # grad) => pc = "grad" /\ state.params = ParamsBefore(Len(history) + 1)
    /\ state' # state => pc = "apply"
    /\ sink' # sink => pc = "log"
    /\ step' # step => (pc = "log" /\ pc' = "pos") \/ pc = "start"

LoggedRecordOf(rec, h) ==
    /\ rec.step = step
    /\ step = Len(history) - 1
    /\ h.at = h.old
    /\ state.params = h.new
    /\ h.loss = loss /\ h.grad = grad
    /\ DictGet(rec.data, K_loss) = h.loss
    /\ DictGet(rec.data, K_layer_grad_norm \o K_slash) = LayerNorms(h.grad)
    /\ DictGet(rec.data, K_transformer_grad_norm) =
          Norm([u \in {0} |-> GlobalNorm(h.grad)])
    /\ DictGet(rec.data, K_layer_param_norm \o K_slash) = LayerNorms(h.new)
    /\ DictGet(rec.data, K_param_norm) = GlobalNorm(h.new)

C22_StepOrderAndLoggedValues ==
    /\ [][StepOrder]_vars
    /\ [][Len(sink') > Len(sink) =>
            /\ Len(sink') = Len(sink) + 1
            /\ LoggedRecordOf(sink'[Len(sink')], history[Len(history)])]_vars

C22_Witness ==
    /\ pc = "pos"
    /\ Len(sink) >= 2
    /\ Len(sink) = Len(history)
    /\ DictGet(sink[1].data, K_param_norm) = GlobalNorm(history[1].new)
    /\ GlobalNorm(history[1].new) # GlobalNorm(history[1].old)
    /\ LET h == history[2]
       IN  /\ DictGet(sink[2].data, K_layer_param_norm \o K_slash) = LayerNorms(h.new)
           /\ LayerNorms(h.new) # LayerNorms(h.old)
           /\ DictGet(sink[2].data, K_loss) = h.loss
           /\ h.loss # AverageLoss(ComputeLoss(dtype, h.new, h.logits_teacher,
                                               h.student_ctx, h.labels), cfg.batch_size)



\* C23: every option the trainer reads from its params object is a field of
\* Hparams, so building the trainer with an Hparams instance and running train()
\* never fails on a missing option.
IsHparamsInstance == DOMAIN cfg = HparamsFields

C23_HparamsHasEveryOption == IsHparamsInstance => ~raised

\* C23 in the code: the trainer fails exactly when the params object lacks an
\* option on the path taken, and an Hparams instance lacks seed, so building the
\* trainer with one always fails.
C23_FailsOnMissingOption ==
    /\ raised => \E name \in OptionsUsed : ~HasAttr(name)
    /\ (OptionsUsed \subseteq DOMAIN cfg) => ~raised
    /\ IsHparamsInstance => pc \in {"init", "raised"}
    /\ (IsHparamsInstance /\ pc = "raised") => (raised /\ state = Unset)

C23_WitnessComplete ==
    /\ pc = "done"
    /\ OptionsUsed \subseteq DOMAIN cfg
    /\ Len(history) >= 2

====
